---- MODULE Spec2Model ----
(***************************************************************************)
(* rustmark (src/src/main.rs): a CPU stress benchmark.  main() puts the    *)
(* terminal into raw mode / alternate screen, spawns one busy worker per   *)
(* logical core, runs a draw -> poll -> update control loop until 'q' is   *)
(* pressed or the counter snapshot reaches TARGET_OPERATIONS, restores the *)
(* terminal, joins the workers and prints the summary.                     *)
(*                                                                         *)
(* Scaling: the source target is 100_000_000_000 operations, i.e. 100_000  *)
(* batches of 1_000_000.  The model keeps the batch size and counts the    *)
(* target in batches (TargetBatches); all counter values are real          *)
(* operation counts, multiples of BATCH.  Readings of the clock are in      *)
(* quarters of a second, which are exact both as a Duration and as an f64  *)
(* number of seconds.                                                      *)
(***************************************************************************)
EXTENDS Integers, Sequences, FiniteSets

\* ---------------------------------------------------------------- bounds
MaxCores == 2
TargetBatches == 2
\* control-loop iterations explored: MaxTicks with one worker, and LongTicks
\* (enough to fill the history and evict) for the runs TickBound selects
MaxTicks == 3
LongTicks == 242
\* quarters of a second by which a reading of the clock inside the loop
\* exceeds the previous reading, at most
MaxStep == 1
\* quarters of a second by which the reading after the joins exceeds the last
\* reading of the loop, at most
MaxWait == 1

\* ------------------------------------------------------ program constants
BATCH == 1000000
HISTORY_LIMIT == 240
TARGET_OPERATIONS == TargetBatches * BATCH

Workers == 1..MaxCores

\* What the telemetry provider (sysinfo) can answer after a refresh: the mean
\* CPU usage, an f32, given as x for the f32 nearest to x / 1000 percent, and
\* used and total memory in bytes.
Providers ==
    { [cpu |-> 57345, used |-> 1,   total |-> 3],
      [cpu |-> 2675,  used |-> 201, total |-> 20000] }

\* What event::poll / event::read deliver in one tick.
Events == {"none", "key_q", "key_other", "mouse"}

VARIABLES
    pc,            \* position of the main (control) thread
    err,           \* the call whose io::Error main returned, or "none"
    num_cores,     \* num_cpus::get(): the number of logical cores the platform reports
    spawned,       \* handles.len()
    joined,        \* handles already joined
    wpc,           \* position of each worker thread
    wlast,         \* counter value written by the worker's pending fetch_add
    batches,       \* fetch_adds done by each worker
    counter,       \* total_operations: Arc<AtomicU64>
    raw_mode, alt_screen, mouse_capture, cursor_hidden,   \* terminal state
    sys,           \* the provider's readings as of its last refresh
    app_state,     \* AppState
    clock,         \* the latest reading of start_time.elapsed(), in quarters of a second
    polls,         \* event::poll calls that have returned Ok
    ticks,         \* completed update_app_state calls
    frames,        \* completed terminal.draw calls
    quit,          \* 'q' has been read
    out,           \* lines printed to stdout
    event,         \* what the poll of this iteration delivered ("none": nothing)
    quit_batches   \* batches as it stood when 'q' was read

vars == << pc, err, num_cores, spawned, joined, wpc, wlast, batches, counter,
           raw_mode, alt_screen, mouse_capture, cursor_hidden, sys, app_state,
           clock, polls, ticks, frames, quit, out, event, quit_batches >>

term     == << raw_mode, alt_screen, mouse_capture, cursor_hidden >>
workerst == << wpc, wlast, batches, counter >>
loopst   == << app_state, clock, polls, ticks, frames, quit >>

Min(a, b) == IF a < b THEN a ELSE b
Max(a, b) == IF a > b THEN a ELSE b

\* the samples recorded so far are equal and a quarter of a second apart: the
\* sample of the k-th update was taken after k quarters
InputsSteady ==
    LET h == app_state.cpu_usage_history
        m == app_state.memory_usage_history
    IN  \A i \in 1..Len(h) :
            /\ h[i][1] = ticks - Len(h) + i
            /\ h[i][2] = h[1][2]
            /\ m[i][2] = m[1][2]

\* how many control-loop iterations are explored for a run with c workers:
\* MaxTicks with one worker, one less with two, one with more, and LongTicks
\* while a run with at most one worker, still within its first batch, has
\* recorded equal samples a quarter of a second apart
TickBound(c) ==
    IF c <= 1 /\ InputsSteady /\ counter = 0 THEN LongTicks
    ELSE IF c <= 1 THEN MaxTicks
    ELSE IF c = 2 THEN Max(1, MaxTicks - 1)
    ELSE 1

\* ----------------------------------------------------------- the counter
\* mutant of Visible: a load that may return a value older than the
\* loading thread's own last write
VisibleAny(floor) ==
    { k * BATCH : k \in 0..(counter \div BATCH) }

\* A relaxed load returns some value of the counter's modification order
\* that is not older than the last value the loading thread has written or
\* read (coherence).  Every modification is a fetch_add of BATCH.
Visible(floor) ==
    { k * BATCH : k \in (floor \div BATCH)..(counter \div BATCH) }

\* mutant of WorkerDone: the exit test with > for >=
WorkerDoneStrict(v) == v > TARGET_OPERATIONS

\* line 58: the worker's exit test on the value it loaded
WorkerDone(v) == v >= TARGET_OPERATIONS

\* mutant of TargetReached: the exit test with > for >=
TargetReachedStrict(a) == a.total_operations > TARGET_OPERATIONS

\* line 116: the control loop's exit test on the snapshot
TargetReached(a) == a.total_operations >= TARGET_OPERATIONS

\* ------------------------------------------------- binary floating point
\* The source rounds and prints binary floating-point values.  A value is a
\* fraction p / q of integers here; where the decimal result depends on the
\* side of a half on which the binary value lies, that side is computed from
\* remainders modulo q.

RECURSIVE GCD(_, _)
GCD(a, b) == IF b = 0 THEN a ELSE GCD(b, a % b)

\* ceiling of q / 2^k
CeilShift(q, k) == (q + 2 ^ k - 1) \div 2 ^ k

\* floor(log2(p / q)) for 0 < p, q < 2^30: the j with 2^j <= p / q < 2^(j+1)
Log2Floor(p, q) ==
    CHOOSE j \in -30..29 :
        IF j >= 0
        THEN p \div 2 ^ j >= q /\ p \div 2 ^ (j + 1) < q
        ELSE p >= CeilShift(q, 0 - j) /\ p < CeilShift(q, 0 - j - 1)

\* 2^e mod m
Pow2Mod(e, m) ==
    LET f[i \in 0..96] == IF i = 0 THEN 1 % m ELSE (2 * f[i - 1]) % m
    IN  f[e]

\* (p * 2^e) mod m
ScaledMod(p, e, m) == ((p % m) * Pow2Mod(e, m)) % m

\* n + f / d rounded to the nearest integer, a half going to the even one;
\* par is the parity of n, the result is the integer minus n
RoundHalfEven(f, d, par) ==
    LET n == f \div d
        r == f - n * d
    IN  IF 2 * r < d THEN n
        ELSE IF 2 * r > d THEN n + 1
        ELSE IF (par + n) % 2 = 0 THEN n ELSE n + 1

\* ---------------------------------------------------------- render_header
\* lines 153-157: (progress * 100.0) as u16 for progress = total_operations
\* as f64 / TARGET_OPERATIONS as f64.  The cast truncates toward zero and
\* saturates.  The two roundings matter only when 100 * total / TARGET is an
\* integer n: the f64 nearest to n / 100 = p / q may lie below it, by r1
\* (as a numerator over q * 2^(52 - j1)), and the product then rounds to the
\* f64 below n when that error exceeds half the distance between n and its
\* predecessor, which truncates to n - 1 (0.29 * 100.0 gives 28).
GaugePercent(a) ==
    LET h == (100 * a.total_operations) \div TARGET_OPERATIONS
        exact == (100 * a.total_operations) % TARGET_OPERATIONS = 0
    IN  IF ~exact \/ h = 0 THEN Min(h, 65535)
        ELSE IF \E g \in {GCD(h, 100)} :
                \E p \in {h \div g}, q \in {100 \div g} :
                \E j1 \in {Log2Floor(p, q)}, j3 \in {Log2Floor(h, 1)} :
                \E r1 \in {ScaledMod(p, 52 - j1, q)} :
                    /\ r1 # 0
                    /\ 2 * r1 < q
                    /\ (IF h = 2 ^ j3 THEN 400 ELSE 200) * r1 > q * 2 ^ (j3 - j1)
             THEN Min(h - 1, 65535)
             ELSE Min(h, 65535)

\* ------------------------------------------------------ update_app_state
\* line 388: (app_state.cpu_usage as f64 * 100.0).round() / 100.0, for the
\* f32 nearest to x / 1000: the result in hundredths.  The product is exact
\* in f64 and round() rounds a half away from zero.  When x / 1000 is
\* half-way between two hundredths the f32 decides: it is the 24-bit binary
\* fraction nearest to x / 1000 and lies below it when the remainder of
\* x * 2^e by 1000 is less than half (e scales x / 1000 to 24 bits).
Round2Cpu(x) ==
    IF x % 10 # 5 THEN (x + 5) \div 10
    ELSE IF \E e \in {23 - Log2Floor(x, 1000)} :
               \E r \in {ScaledMod(x, e, 1000)} : r # 0 /\ 2 * r < 1000
         THEN x \div 10
         ELSE x \div 10 + 1

\* line 385: (used_memory as f64 / total_memory as f64) * 100.0, as the
\* fraction << numerator, denominator >> it approximates
MemoryUsage(s) == << s.used * 100, s.total >>

\* lines 385 and 389 for a quotient u / t = p / q (p / q in lowest terms)
\* whose 10000-fold is k + 1/2: TRUE when the f64 that the division and the
\* two multiplications by 100.0 produce is not below k + 1/2.  c1 and c2 are
\* the rounding errors of the quotient and of the first product (as
\* numerators over q * 2^e1 and q * 2^e2), e1, e2, e3 the exponents that scale
\* the three results to 53 bits (e_i = 52 - j_i).
HalfReached(u, t) ==
    \E g \in {GCD(u, t)} :
    \E p \in {u \div g}, q \in {t \div g} :
    \E k \in {(10000 * p) \div q},
       j1 \in {Log2Floor(p, q)}, j2 \in {Log2Floor(100 * p, q)} :
    \E r1 \in {ScaledMod(p, 52 - j1, q)},
       r2 \in {ScaledMod(100 * p, 52 - j2, q)},
       s2 \in {ScaledMod(100 * p, 52 - j2, 2 * q)},
       j3 \in {Log2Floor(2 * k + 1, 2)} :
    \E c1 \in {IF 2 * r1 < q THEN 0 - r1 ELSE q - r1},
       par \in {((s2 - r2) \div q) % 2},
       sh2 \in {2 ^ (j2 - j1)}, sh3 \in {2 ^ (j3 - j2)} :
    \E up2 \in {RoundHalfEven(r2 * sh2 + 100 * c1, q * sh2, par)} :
    \E c2 \in {up2 * q - r2} :
        RoundHalfEven(100 * c2, q * sh3, 0) >= 0

\* line 389: (app_state.memory_usage * 100.0).round() / 100.0 for the
\* fraction m = << used * 100, total >>, in hundredths.  round() rounds a
\* half away from zero; the f64 errors matter only when the exact value is
\* a half (totals below 10^11).
Round2Mem(m) ==
    LET h == (100 * m[1]) \div m[2]
        r == (100 * m[1]) % m[2]
    IN  IF 2 * r < m[2] THEN h
        ELSE IF 2 * r > m[2] THEN h + 1
        ELSE IF HalfReached(m[1], 100 * m[2]) THEN h + 1 ELSE h

\* mutant of NeedsEvict: the eviction guard off by one
NeedsEvictLate(h) == Len(h) > HISTORY_LIMIT + 1

NeedsEvict(h) == Len(h) > HISTORY_LIMIT

\* mutant of RemoveFirst: the newest element removed instead of the oldest
RemoveLast(h) == SubSeq(h, 1, Len(h) - 1)

RemoveFirst(h) == Tail(h)

\* mutant of update_app_state: the eviction removes from the CPU history only
update_app_state_cpu_evict_only(a, s, total, now) ==
    LET cpu  == s.cpu
        mem  == MemoryUsage(s)
        cpuh == Append(a.cpu_usage_history, << now, Round2Cpu(cpu) >>)
        memh == Append(a.memory_usage_history, << now, Round2Mem(mem) >>)
        ev   == NeedsEvict(cpuh)
    IN  [ total_operations     |-> total,
          elapsed_time         |-> now,
          cpu_usage            |-> cpu,
          memory_usage         |-> mem,
          cpu_usage_history    |-> IF ev THEN RemoveFirst(cpuh) ELSE cpuh,
          memory_usage_history |-> memh ]

\* lines 368-401.  s: the provider's readings after sys.refresh_all() (line
\* 374), total: the counter value loaded at line 112, now: the value
\* start_time.elapsed() returns at line 376.
update_app_state(a, s, total, now) ==
    LET cpu  == s.cpu
        mem  == MemoryUsage(s)
        cpuh == Append(a.cpu_usage_history, << now, Round2Cpu(cpu) >>)
        memh == Append(a.memory_usage_history, << now, Round2Mem(mem) >>)
        ev   == NeedsEvict(cpuh)
    IN  [ total_operations     |-> total,
          elapsed_time         |-> now,
          cpu_usage            |-> cpu,
          memory_usage         |-> mem,
          cpu_usage_history    |-> IF ev THEN RemoveFirst(cpuh) ELSE cpuh,
          memory_usage_history |-> IF ev THEN RemoveFirst(memh) ELSE memh ]

InitialAppState ==
    [ total_operations     |-> 0,
      elapsed_time         |-> 0,
      cpu_usage            |-> 0,
      memory_usage         |-> << 0, 1 >>,
      cpu_usage_history    |-> << >>,
      memory_usage_history |-> << >> ]

\* ------------------------------------------------------------------ Init
Init ==
    /\ pc = "enable_raw"
    /\ err = "none"
    /\ num_cores \in 0..MaxCores
    /\ spawned = 0
    /\ joined = 0
    /\ wpc = [w \in Workers |-> "unspawned"]
    /\ wlast = [w \in Workers |-> 0]
    /\ batches = [w \in Workers |-> 0]
    /\ counter = 0
    /\ raw_mode = FALSE
    /\ alt_screen = FALSE
    /\ mouse_capture = FALSE
    /\ cursor_hidden = FALSE
    /\ sys \in Providers
    /\ app_state = InitialAppState
    /\ clock = 0
    /\ polls = 0
    /\ ticks = 0
    /\ frames = 0
    /\ quit = FALSE
    /\ out = << >>
    /\ event = "none"
    /\ quit_batches = [w \in Workers |-> 0]

\* main has returned (Ok or Err) or panicked: the process exits and its
\* threads die.
Exited == pc \in {"stopped", "failed", "panicked"}

\* `?` on a failed call: main returns the error at once.
Fail(call) ==
    /\ pc' = "failed"
    /\ err' = call

\* --------------------------------------------------- terminal initialisation
\* line 38
EnableRaw ==
    /\ pc = "enable_raw"
    /\ raw_mode' = TRUE
    /\ pc' = "enter_screen"
    /\ UNCHANGED << err, alt_screen, mouse_capture, cursor_hidden >>
    /\ UNCHANGED << num_cores, spawned, joined, workerst, sys, loopst, out, event, quit_batches >>

EnableRawFails ==
    /\ pc = "enable_raw"
    /\ Fail("enable_raw_mode")
    /\ UNCHANGED << term, num_cores, spawned, joined, workerst, sys, loopst, out, event, quit_batches >>

\* line 40
EnterScreen ==
    /\ pc = "enter_screen"
    /\ alt_screen' = TRUE
    /\ mouse_capture' = TRUE
    /\ pc' = "new_terminal"
    /\ UNCHANGED << err, raw_mode, cursor_hidden >>
    /\ UNCHANGED << num_cores, spawned, joined, workerst, sys, loopst, out, event, quit_batches >>

\* execute! writes the sequence of EnterAlternateScreen, then those of
\* EnableMouseCapture, and flushes; a write that fails part-way has delivered
\* a prefix: nothing, the alternate screen only, or the alternate screen and
\* one or more of the mouse modes.
EnterScreenFails ==
    /\ pc = "enter_screen"
    /\ \E a \in BOOLEAN, m \in BOOLEAN :
          /\ m => a
          /\ alt_screen' = a
          /\ mouse_capture' = m
    /\ Fail("enter_screen")
    /\ UNCHANGED << raw_mode, cursor_hidden >>
    /\ UNCHANGED << num_cores, spawned, joined, workerst, sys, loopst, out, event, quit_batches >>

\* line 42
NewTerminal ==
    /\ pc = "new_terminal"
    /\ pc' = "spawn"
    /\ UNCHANGED << err, term, num_cores, spawned, joined, workerst, sys, loopst, out, event, quit_batches >>

NewTerminalFails ==
    /\ pc = "new_terminal"
    /\ Fail("terminal_new")
    /\ UNCHANGED << term, num_cores, spawned, joined, workerst, sys, loopst, out, event, quit_batches >>

\* ------------------------------------------------------------ worker spawn
\* line 50: for _ in 0..num_cores
SpawnTarget == num_cores

Spawn ==
    /\ pc = "spawn"
    /\ spawned < SpawnTarget
    /\ spawned' = spawned + 1
    /\ wpc' = [wpc EXCEPT ![spawned + 1] = "spin"]
    /\ UNCHANGED << pc, err, term, num_cores, joined, wlast, batches, counter,
                    sys, loopst, out, event, quit_batches >>

\* line 52: thread::spawn panics when the OS refuses the thread; the handles
\* pushed so far are dropped and their threads die with the process
SpawnPanics ==
    /\ pc = "spawn"
    /\ spawned < SpawnTarget
    /\ pc' = "panicked"
    /\ err' = "thread_spawn"
    /\ UNCHANGED << term, num_cores, spawned, joined, workerst, sys, loopst, out, event, quit_batches >>

\* lines 67-79: System::new_all(), get_current_pid() and the initial AppState
SpawnDone ==
    /\ pc = "spawn"
    /\ spawned >= SpawnTarget
    /\ pc' = "draw"
    /\ UNCHANGED << err, term, num_cores, spawned, joined, workerst, sys, loopst, out, event, quit_batches >>

\* line 68: expect() panics when sysinfo::get_current_pid() returns Err
CurrentPidPanics ==
    /\ pc = "spawn"
    /\ spawned >= SpawnTarget
    /\ pc' = "panicked"
    /\ err' = "get_current_pid"
    /\ UNCHANGED << term, num_cores, spawned, joined, workerst, sys, loopst, out, event, quit_batches >>

\* ----------------------------------------------------------------- workers
\* lines 55-57: BATCH iterations of n.wrapping_add(1), then the fetch_add
WorkerAdd(w) ==
    /\ ~Exited
    /\ wpc[w] = "spin"
    /\ counter' = counter + BATCH
    /\ wlast' = [wlast EXCEPT ![w] = counter + BATCH]
    /\ batches' = [batches EXCEPT ![w] = @ + 1]
    /\ wpc' = [wpc EXCEPT ![w] = "check"]
    /\ UNCHANGED << pc, err, term, num_cores, spawned, joined, sys, loopst, out, event, quit_batches >>

\* lines 58-60: the load and the exit test
WorkerLoad(w) ==
    /\ ~Exited
    /\ wpc[w] = "check"
    /\ \E v \in Visible(wlast[w]) :
          wpc' = [wpc EXCEPT ![w] = IF WorkerDone(v) THEN "exited" ELSE "spin"]
    /\ wlast' = [wlast EXCEPT ![w] = 0]
    /\ UNCHANGED << pc, err, term, num_cores, spawned, joined, batches, counter,
                    sys, loopst, out, event, quit_batches >>

\* ------------------------------------------------------------ control loop
\* lines 82-99: terminal.draw hides the cursor and renders app_state
Draw ==
    /\ ticks < TickBound(num_cores)
    /\ pc = "draw"
    /\ cursor_hidden' = TRUE
    /\ frames' = frames + 1
    /\ pc' = "poll"
    /\ UNCHANGED << err, raw_mode, alt_screen, mouse_capture >>
    /\ UNCHANGED << num_cores, spawned, joined, workerst, sys, app_state, clock,
                    polls, ticks, quit, out, event, quit_batches >>

DrawFails ==
    /\ pc = "draw"
    /\ Fail("draw")
    /\ UNCHANGED << term, num_cores, spawned, joined, workerst, sys, loopst, out, event, quit_batches >>

\* mutant of AfterEvent: an iteration that received an event skips the update
AfterEventSkipsUpdate(ev) ==
    IF ev = "key_q" THEN "disable_raw" ELSE IF ev = "none" THEN "update" ELSE "draw"

\* mutant of AfterEvent: every key breaks the loop
AfterEventAnyKey(ev) == IF ev \in {"key_q", "key_other"} THEN "disable_raw" ELSE "update"

\* lines 101-107: only Event::Key with KeyCode::Char('q') breaks
AfterEvent(ev) == IF ev = "key_q" THEN "disable_raw" ELSE "update"

\* lines 101-107: event::poll returns Ok(false) (no event), or Ok(true) and
\* event::read returns the event
Poll ==
    /\ pc = "poll"
    /\ \E ev \in Events :
          /\ event' = ev
          /\ pc' = AfterEvent(ev)
          /\ quit' = (ev = "key_q")
          /\ quit_batches' = IF ev = "key_q" THEN batches ELSE quit_batches
    /\ polls' = polls + 1
    /\ UNCHANGED << err, term, num_cores, spawned, joined, workerst, sys,
                    app_state, clock, ticks, frames, out >>

\* line 101: event::poll returns Err
PollFails ==
    /\ pc = "poll"
    /\ Fail("poll")
    /\ UNCHANGED << term, num_cores, spawned, joined, workerst, sys, loopst, out, event, quit_batches >>

\* lines 101-102: event::poll has returned Ok(true) and event::read returns
\* Err: no event is delivered
ReadFails ==
    /\ pc = "poll"
    /\ polls' = polls + 1
    /\ Fail("read")
    /\ UNCHANGED << term, num_cores, spawned, joined, workerst, sys, app_state,
                    clock, ticks, frames, quit, out, event, quit_batches >>

\* mutant of Snapshots: a load that may return a value older than the
\* one the control thread has already read
SnapshotsIncoherent == Visible(0)

\* line 112: the values total_operations.load(Ordering::Relaxed) may return
\* to the control thread, whose previous load returned
\* app_state.total_operations
Snapshots == Visible(app_state.total_operations)

\* mutant of AfterUpdate: the next iteration starts at the poll, not the redraw
AfterUpdateSkipsDraw(a) == IF TargetReached(a) THEN "disable_raw" ELSE "poll"

\* mutant of AfterUpdate: the loop without its exit test
AfterUpdateNoExit(a) == "draw"

\* lines 109-118: the relaxed load, update_app_state and the exit test
AfterUpdate(a) == IF TargetReached(a) THEN "disable_raw" ELSE "draw"

\* quarters of a second the clock may have advanced since its previous
\* reading inside the loop
ElapsedSteps == 0..MaxStep

\* line 374: what sys.refresh_all() may leave in the provider
Refreshed == Providers

\* line 376: what start_time.elapsed() may return, in quarters of a second;
\* the clock is monotonic and the previous reading was clock
ElapsedNow == { clock + d : d \in ElapsedSteps }

\* lines 109-118: the relaxed load, the provider's refresh, the reading of
\* the clock, update_app_state and the exit test
Update ==
    /\ pc = "update"
    /\ \E v \in Snapshots, s \in Refreshed, now \in ElapsedNow :
          /\ sys' = s
          /\ clock' = now
          /\ app_state' = update_app_state(app_state, s, v, now)
    /\ ticks' = ticks + 1
    /\ event' = "none"
    /\ pc' = AfterUpdate(app_state')
    /\ UNCHANGED << err, term, num_cores, spawned, joined, workerst,
                    polls, frames, quit, out, quit_batches >>

\* -------------------------------------------------------- terminal restore
\* line 122
DisableRaw ==
    /\ pc = "disable_raw"
    /\ raw_mode' = FALSE
    /\ pc' = "leave_screen"
    /\ UNCHANGED << err, alt_screen, mouse_capture, cursor_hidden >>
    /\ UNCHANGED << num_cores, spawned, joined, workerst, sys, loopst, out, event, quit_batches >>

\* lines 123-127
LeaveScreen ==
    /\ pc = "leave_screen"
    /\ alt_screen' = FALSE
    /\ mouse_capture' = FALSE
    /\ pc' = "show_cursor"
    /\ UNCHANGED << err, raw_mode, cursor_hidden >>
    /\ UNCHANGED << num_cores, spawned, joined, workerst, sys, loopst, out, event, quit_batches >>

\* line 128
ShowCursor ==
    /\ pc = "show_cursor"
    /\ cursor_hidden' = FALSE
    /\ pc' = "join"
    /\ UNCHANGED << err, raw_mode, alt_screen, mouse_capture >>
    /\ UNCHANGED << num_cores, spawned, joined, workerst, sys, loopst, out, event, quit_batches >>

\* lines 122-128 returning Err.  The execute! of lines 123-127 writes the
\* sequence of LeaveAlternateScreen, then those of DisableMouseCapture; a
\* write that fails part-way has delivered nothing, or has left the alternate
\* screen with one or more mouse modes still on.
RestoreFails ==
    /\ pc \in {"disable_raw", "leave_screen", "show_cursor"}
    /\ Fail(pc)
    /\ IF pc = "leave_screen"
       THEN \E a \in BOOLEAN : alt_screen' = a
       ELSE UNCHANGED alt_screen
    /\ UNCHANGED << raw_mode, mouse_capture, cursor_hidden >>
    /\ UNCHANGED << num_cores, spawned, joined, workerst, sys, loopst, out, event, quit_batches >>

\* --------------------------------------------------------- join and summary
\* mutant of JoinReturns: join returns without waiting for the thread
JoinReturnsAtOnce(w) == TRUE

\* line 131: handle.join() returns when that thread has terminated
JoinReturns(w) == wpc[w] = "exited"

Join ==
    /\ pc = "join"
    /\ joined < spawned
    /\ JoinReturns(joined + 1)
    /\ joined' = joined + 1
    /\ UNCHANGED << pc, err, term, num_cores, spawned, workerst, sys, loopst, out, event, quit_batches >>

JoinDone ==
    /\ pc = "join"
    /\ joined = spawned
    /\ pc' = "summary"
    /\ UNCHANGED << err, term, num_cores, spawned, joined, workerst, sys, loopst, out, event, quit_batches >>

\* line 134: what start_time.elapsed() may return after the restore calls
\* and the joins, in quarters of a second: the previous reading was clock, and
\* the joins may have waited for the workers in between.  The reading is
\* positive: the clock has a resolution of nanoseconds and main has run.
TotalTimes == { t \in clock..(clock + MaxWait) : t > 0 }

\* mutant of ReportedOperations: the statistics taken from the counter
ReportedActual == counter

\* lines 135 and 138: the statistics use the constant, not the counter
ReportedOperations == TARGET_OPERATIONS

\* {:.2} applied to the f64 nearest to a / b: the digits printed, as a number
\* of hundredths.  The formatter rounds the exact binary value to the nearest
\* hundredth, a half to the even one.  Only when a / b itself is a half, odd /
\* 200, does the binary error matter: with the denominator reduced to 8 the
\* f64 is exact and the even neighbour is printed, otherwise the f64 nearest
\* to a / b lies below it when the remainder of p * 2^e by q is less than half.
Fmt2(a, b) ==
    LET h == (100 * a) \div b
        r == (100 * a) % b
        n == 2 * h + 1
        g == GCD(n, 25)
        p == n \div g
        q == 200 \div g
        e == 52 - Log2Floor(p, q)
    IN  IF 2 * r < b THEN h
        ELSE IF 2 * r > b THEN h + 1
        ELSE IF q = 8 THEN (IF h % 2 = 0 THEN h ELSE h + 1)
        ELSE IF 2 * ScaledMod(p, e, q) < q THEN h ELSE h + 1

\* line 139: {:.2?} of a Duration of t quarters of a second, as the digits
\* printed, in hundredths of the unit that follows.  The Debug format prints
\* seconds from one second on and milliseconds below; a quarter of a second has
\* no digit beyond the second decimal, so nothing is rounded.
DurationDebug2(t) ==
    IF t >= 4 THEN << 25 * t, "s" >>
    ELSE IF t > 0 THEN << 25000 * t, "ms" >>
    ELSE << 0, "ns" >>

\* line 135 printed by line 140: (mops * 10^6) as f64 / total_time.as_secs_f64()
\* for a total of t quarters of a second, as the digits {:.2} prints:
\* << m, u, c >> stands for m * 10^6 + u + c / 100 operations per second.
\* t quarters are exact as an f64 number of seconds, so the quotient is rounded
\* once, and the formatter rounds the exact binary value to the nearest
\* hundredth.  The quotient 4 * mops * 10^6 / t is divided out in steps that fit
\* 32 bits (0 < t < 2^21, mops < 2^17).  It lies half-way between two
\* hundredths only when t is a multiple of 2^11, and is then a multiple of 1/8
\* unless t is a multiple of 5^7 as well, which is out of this range: the f64
\* is exact and the even hundredth is printed.
OperationsPerSecond(mops, t) ==
    LET q0 == (4 * mops) \div t
        r0 == (4 * mops) % t
        u1 == (1000 * r0) \div t
        r1 == (1000 * r0) % t
        u2 == (1000 * r1) \div t
        r2 == (1000 * r1) % t
        c  == (100 * r2) \div t
        r3 == (100 * r2) % t
        up == \/ 2 * r3 > t
              \/ 2 * r3 = t /\ c % 2 = 1
        c1 == IF up THEN c + 1 ELSE c
        u  == 1000 * u1 + u2 + (IF c1 = 100 THEN 1 ELSE 0)
    IN  << q0 + (IF u = 1000000 THEN 1 ELSE 0), u % 1000000, c1 % 100 >>

\* lines 141-144: operations_per_second / 1_000_000.0, the digits of {:.2}
\* in hundredths.  The quotient is mops / seconds = 4 * mops / t; the two
\* divisions of the source differ from it by less than the distance of a
\* quotient that is not a half from the nearest half.
Score100(mops, t) == Fmt2(4 * mops, t)

\* lines 135 and 138 in millions: the target is a multiple of BATCH = 10^6
ReportedMillions == ReportedOperations \div 1000000

\* mutant of SummaryLines: a shorter summary after a quit
SummaryLinesCutOnQuit(t) ==
    IF quit
    THEN << << "Stress test completed" >>,
            << "Total operations", ReportedOperations >> >>
    ELSE << << "Stress test completed" >>,
            << "Total operations", ReportedOperations >>,
            << "Total time", DurationDebug2(t) >>,
            << "Operations per second", OperationsPerSecond(ReportedMillions, t) >>,
            << "Score", Score100(ReportedMillions, t) >> >>

\* lines 137-144: one println! per line, each a label and its value, for
\* total_time = t quarters of a second
SummaryLines(t) ==
    << << "Stress test completed" >>,
       << "Total operations", ReportedOperations >>,
       << "Total time", DurationDebug2(t) >>,
       << "Operations per second", OperationsPerSecond(ReportedMillions, t) >>,
       << "Score", Score100(ReportedMillions, t) >> >>

\* lines 134-146
Summary ==
    /\ pc = "summary"
    /\ \E t \in TotalTimes : out' = SummaryLines(t)
    /\ pc' = "stopped"
    /\ UNCHANGED << err, term, num_cores, spawned, joined, workerst, sys, loopst,
                    event, quit_batches >>

\* lines 137-144: println! panics when the write to stdout fails.  The lines
\* before the failing one have been written, and possibly a piece of the
\* failing one.
SummaryCut(t, k, piece) ==
    SubSeq(SummaryLines(t), 1, k)
        \o (IF piece THEN << << "cut short", SummaryLines(t)[k + 1][1] >> >> ELSE << >>)

SummaryPanics ==
    /\ pc = "summary"
    /\ \E t \in TotalTimes, k \in 0..4, piece \in BOOLEAN :
          out' = SummaryCut(t, k, piece)
    /\ pc' = "panicked"
    /\ err' = "println"
    /\ UNCHANGED << term, num_cores, spawned, joined, workerst, sys, loopst,
                    event, quit_batches >>

\* ------------------------------------------------------------------- Next
Next ==
    \/ EnableRaw
    \/ EnableRawFails
    \/ EnterScreen
    \/ EnterScreenFails
    \/ NewTerminal
    \/ NewTerminalFails
    \/ Spawn
    \/ SpawnPanics
    \/ SpawnDone
    \/ CurrentPidPanics
    \/ \E w \in Workers : WorkerAdd(w)
    \/ \E w \in Workers : WorkerLoad(w)
    \/ Draw
    \/ DrawFails
    \/ Poll
    \/ PollFails
    \/ ReadFails
    \/ Update
    \/ DisableRaw
    \/ LeaveScreen
    \/ ShowCursor
    \/ RestoreFails
    \/ Join
    \/ JoinDone
    \/ Summary
    \/ SummaryPanics

Spec == Init /\ [][Next]_vars

\* ================================================================ properties
AllWorkersExited == \A w \in 1..num_cores : wpc[w] = "exited"

\* the spawn loop of lines 50-65 has run to its end
SpawnLoopDone ==
    /\ pc \notin {"enable_raw", "enter_screen", "new_terminal", "spawn"}
    /\ err \notin {"enable_raw_mode", "enter_screen", "terminal_new", "thread_spawn"}

Running  == pc \in {"draw", "poll", "update"}
Stopping == pc \in {"disable_raw", "leave_screen", "show_cursor", "join", "summary"}
Stopped  == pc = "stopped"
Aborted  == pc = "failed"
Panicked == pc = "panicked"

TerminalRestored ==
    /\ ~raw_mode
    /\ ~alt_screen
    /\ ~mouse_capture
    /\ ~cursor_hidden

CpuHistory == app_state.cpu_usage_history
MemHistory == app_state.memory_usage_history

\* C1: with C >= 1 workers, once every worker has exited the counter is at
\* least TARGET_OPERATIONS and exceeds it by less than C * BATCH.
C1_BoundedOvershoot ==
    (num_cores >= 1 /\ SpawnLoopDone /\ AllWorkersExited)
        => /\ counter >= TARGET_OPERATIONS
           /\ counter - TARGET_OPERATIONS < num_cores * BATCH

\* C1 witness: two workers have both exited after both overshooting adds.
C1_Witness ==
    /\ num_cores = 2
    /\ AllWorkersExited
    /\ counter = TARGET_OPERATIONS + BATCH

\* C2: the summary is computed and printed (and STOPPED reached) only when
\* every spawned worker has terminated and been joined.
C2_JoinBeforeStopped ==
    (pc \in {"summary", "stopped"} \/ out # << >>)
        => /\ joined = spawned
           /\ spawned = num_cores
           /\ AllWorkersExited

\* C2 witness: STOPPED after a quit with two workers.
C2_Witness ==
    /\ Stopped
    /\ quit
    /\ num_cores = 2
    /\ joined = 2

\* C3: whenever the summary has been emitted the counter has reached
\* TARGET_OPERATIONS, also after a quit.
C3_QuitDoesNotShorten ==
    out # << >> => counter >= TARGET_OPERATIONS

\* C4: once the terminal has been initialised, main exits (normally, after a
\* quit, or with an error of draw, poll or read) only with the terminal
\* restored.
C4_RestoredOnEveryExit ==
    (Exited /\ err \in {"none", "draw", "poll", "read"}) => TerminalRestored

\* C5: when terminal initialisation fails after raw mode was enabled, main
\* returns the error with the mode changes reverted.
C5_PartialInitReverted ==
    (Aborted /\ err \in {"enter_screen", "terminal_new"})
        => /\ ~raw_mode
           /\ ~alt_screen
           /\ ~mouse_capture

\* C6: after the spawn loop exactly max(1, num_cores) workers exist: one
\* worker when the platform reports 0 logical cores.
C6_WorkerCount ==
    SpawnLoopDone => spawned = Max(1, num_cores)

\* C7: both histories have at most HISTORY_LIMIT entries, and exactly
\* min(T, HISTORY_LIMIT) after T completed updates.
C7_HistoryLength ==
    /\ Len(CpuHistory) <= HISTORY_LIMIT
    /\ Len(MemHistory) <= HISTORY_LIMIT
    /\ Len(CpuHistory) = Min(ticks, HISTORY_LIMIT)
    /\ Len(MemHistory) = Min(ticks, HISTORY_LIMIT)

\* C7 witness: more updates than the limit, the history at the limit.
C7_Witness ==
    /\ ticks = HISTORY_LIMIT + 2
    /\ Len(CpuHistory) = HISTORY_LIMIT
    /\ Len(MemHistory) = HISTORY_LIMIT

\* The samples are in the order of their updates: the newest carries the
\* latest reading of the clock and the stamps never decrease.
C8_Window ==
    /\ Len(CpuHistory) > 0 => CpuHistory[Len(CpuHistory)][1] = clock
    /\ \A i \in 1..(Len(CpuHistory) - 1) :
          CpuHistory[i][1] <= CpuHistory[i + 1][1]

C8_Shift(h, g) ==
    IF Len(h) < HISTORY_LIMIT
    THEN /\ Len(g) = Len(h) + 1
         /\ SubSeq(g, 1, Len(h)) = h
    ELSE /\ Len(g) = Len(h)
         /\ \A i \in 1..(Len(h) - 1) : g[i] = h[i + 1]

C8_Step ==
    IF ticks' # ticks
    THEN /\ C8_Shift(CpuHistory, CpuHistory')
         /\ C8_Shift(MemHistory, MemHistory')
    ELSE /\ CpuHistory' = CpuHistory
         /\ MemHistory' = MemHistory

\* C8: the history is a FIFO window: it holds the samples of the last
\* min(T, HISTORY_LIMIT) updates in order, and an append at the limit drops
\* exactly the oldest sample and shifts the others.
C8_FifoWindow == [](C8_Window) /\ [][C8_Step]_vars

\* C8 witness: two evictions have happened; the oldest kept sample is the third.
C8_Witness ==
    /\ ticks = HISTORY_LIMIT + 2
    /\ Len(CpuHistory) = HISTORY_LIMIT
    /\ CpuHistory[1][1] = clock - HISTORY_LIMIT + 1
    /\ CpuHistory[HISTORY_LIMIT][1] = clock

\* C9: the displayed total_operations never decreases.
C9_ProgressMonotone ==
    [][app_state'.total_operations >= app_state.total_operations]_vars

\* C9 witness: a displayed snapshot, taken after several ticks, that is
\* positive and behind the counter.
C9_Witness ==
    /\ ticks >= 2
    /\ app_state.total_operations > 0
    /\ app_state.total_operations < counter
    /\ pc = "draw"

C10_Step ==
    /\ (Running /\ ~Running')
          => \/ Stopping' /\ (quit' \/ TargetReached(app_state'))
             \/ Aborted'
    /\ (Running /\ Running') => (~quit' /\ (pc = "update" => ~TargetReached(app_state')))
    /\ Stopping => (Stopping' \/ Stopped' \/ Aborted' \/ Panicked')
    /\ (Stopped \/ Aborted \/ Panicked) => pc' = pc
    /\ (Stopping \/ Stopped \/ Aborted \/ Panicked)
          => UNCHANGED << app_state, clock, polls, ticks, frames >>

\* C10: the loop leaves RUNNING exactly on a quit or on a snapshot that has
\* reached the target, goes on to STOPPING and STOPPED, never returns, and
\* after RUNNING draws, polls and updates nothing.
C10_Lifecycle == [][C10_Step]_vars

\* C10 witness: STOPPED on natural completion after several frames.
C10_Witness ==
    /\ Stopped
    /\ ~quit
    /\ frames >= 2
    /\ TargetReached(app_state)

RECURSIVE SumTo(_, _)
SumTo(f, n) == IF n = 0 THEN 0 ELSE f[n] + SumTo(f, n - 1)

\* batches a worker has added since 'q' was read
BatchesSinceQuit(w) == batches[w] - quit_batches[w]

\* batches that were missing to the target when 'q' was read
MissingAtQuit == (TARGET_OPERATIONS - BATCH * SumTo(quit_batches, MaxCores)) \div BATCH

\* C11 (as claimed): after a quit every worker performs at most one further
\* batch before it exits.
C11_OneBatchAfterQuit ==
    quit => \A w \in 1..num_cores : BatchesSinceQuit(w) <= 1

\* C11 (amended): a quit does not signal the workers; each keeps adding
\* batches until it loads a counter value >= TARGET_OPERATIONS, so after the
\* quit it performs at most max(1, batches missing to the target at the quit)
\* further batches.
C11_BatchesAfterQuit ==
    quit => \A w \in 1..num_cores : BatchesSinceQuit(w) <= Max(1, MissingAtQuit)

\* C11 witness: a worker that added two batches after the quit and exited.
C11_Witness ==
    /\ quit
    /\ pc = "join"
    /\ \E w \in 1..num_cores : BatchesSinceQuit(w) = 2 /\ wpc[w] = "exited"

Abs(x) == IF x < 0 THEN -x ELSE x

\* the target of the source (line 23), in millions of operations
SourceTargetMillions == 100000

\* C12: the summary reports TARGET_OPERATIONS as the total whatever the
\* final counter is, the throughput is TARGET_OPERATIONS / total seconds and
\* the score is that throughput / 1_000_000, both printed to two decimals:
\* each printed value is within half a hundredth of the quotient, for every
\* total, below one second too.  For the target of the source, 100_000_000_000,
\* and a total of 100 s (400 quarters) the throughput is 1_000_000_000.00 and
\* the score 1000.00.
C12_SummaryFromTarget ==
    /\ Stopped =>
          LET d     == out[3][2]
              t     == IF d[2] = "s" THEN d[1] \div 25 ELSE d[1] \div 25000
              tp    == out[4][2]
              tp100 == (tp[1] * 1000000 + tp[2]) * 100 + tp[3]
              sc    == out[5][2]
          IN  /\ out[2] = << "Total operations", TARGET_OPERATIONS >>
              /\ d = DurationDebug2(t)
              /\ t \in clock..(clock + MaxWait)
              /\ 2 * Abs(tp100 * t - 400 * TARGET_OPERATIONS) <= t
              /\ 2 * Abs(sc * t * 100 - 4 * (TARGET_OPERATIONS \div 100)) <= t * 100
    /\ OperationsPerSecond(SourceTargetMillions, 400) = << 1000, 0, 0 >>
    /\ Score100(SourceTargetMillions, 400) = 100000

\* C12 witness: the counter overshot the target and the run took 750 ms: the
\* throughput printed is 2_666_666.67 for the target of 2_000_000, the score
\* 2.67.
C12_Witness ==
    /\ Stopped
    /\ counter > TARGET_OPERATIONS
    /\ out[3][2] = << 75000, "ms" >>
    /\ out[4][2] = << (4 * TargetBatches) \div 3, 666666, 67 >>
    /\ out[5][2] = 267

C14_Step ==
    /\ (polls' # polls /\ ~Aborted')
          => IF event' = "key_q"
             THEN quit' /\ Stopping'
             ELSE ~quit' /\ pc' = "update"
    /\ (polls' # polls /\ Aborted')
          => (err' = "read" /\ event' = event /\ ~quit')
    /\ (Running /\ Stopping')
          => (event' = "key_q" \/ (pc = "update" /\ TargetReached(app_state')))
    /\ (ticks' # ticks)
          => /\ Running \/ Stopping'
             /\ app_state' = update_app_state(app_state, sys',
                                              app_state'.total_operations, clock')
             /\ app_state'.total_operations \in Snapshots
             /\ sys' \in Refreshed
             /\ clock' >= clock

\* C14: only the quit command ends the loop: after any other event (another
\* key, a non-key event) or none the loop stays RUNNING and goes on to the
\* same update_app_state call, whose result does not depend on the event.  A
\* read that returns an error delivers no event; the process ends with it.
C14_OnlyQuitRecognised == [][C14_Step]_vars

\* C14 witness: the second iteration has polled another key and goes on to
\* its update.
C14_Witness ==
    /\ pc = "update"
    /\ event = "key_other"
    /\ ticks = 1
    /\ Len(CpuHistory) = 1
    /\ ~quit

SummaryLabels ==
    << "Stress test completed", "Total operations", "Total time",
       "Operations per second", "Score" >>

SummaryShape ==
    /\ Len(out) = Len(SummaryLabels)
    /\ \A i \in 1..Len(out) : out[i][1] = SummaryLabels[i]
    /\ Len(out[1]) = 1
    /\ \A i \in 2..Len(out) : Len(out[i]) = 2
    /\ out[2][2] = TARGET_OPERATIONS
    /\ err = "none"

\* C15 as stated: the summary printed after a quit has exactly 4 lines.
C15_FourLines == (Stopped /\ quit) => Len(out) = 4

\* C15: the summary printed after a quit has exactly 5 lines (completion
\* notice, total operations, total time, operations per second, score), the
\* same lines and fields as after natural completion, and the process exits
\* without error in both cases.
C15_SummaryShape == Stopped => SummaryShape

\* C15 witness: the summary has been printed after a quit that came before the
\* counter reached the target in the control thread's view.
C15_Witness ==
    /\ Stopped
    /\ quit
    /\ app_state.total_operations < TARGET_OPERATIONS
    /\ Len(out) = 5
    /\ num_cores = 2

C16_Newest(h) == h[Len(h)]

C16_Counts ==
    /\ frames - ticks \in {0, 1}
    /\ polls - ticks \in {0, 1}
    /\ (Stopping \/ Stopped)
          => /\ frames = polls
             /\ ticks = IF quit THEN polls - 1 ELSE polls
    /\ (Aborted /\ err = "draw") => (frames = ticks /\ polls = ticks)
    /\ (Aborted /\ err = "poll") => (frames = ticks + 1 /\ polls = ticks)
    /\ (Aborted /\ err = "read") => (frames = ticks + 1 /\ polls = ticks + 1)

C16_Step ==
    /\ (frames' # frames) => (frames' = frames + 1 /\ frames = ticks)
    /\ (polls' # polls)
          => /\ polls' = polls + 1
             /\ frames = polls'
             /\ IF Aborted'
                THEN err' = "read" /\ app_state' = app_state
                ELSE IF event' = "key_q"
                THEN pc' = "disable_raw" /\ app_state' = app_state
                ELSE pc' = "update"
    /\ (Running /\ Aborted')
          => /\ err' = (IF pc = "draw" THEN "draw"
                        ELSE IF polls' # polls THEN "read" ELSE "poll")
             /\ pc # "update"
             /\ frames' = frames
             /\ ticks' = ticks
    /\ (ticks' # ticks)
          => /\ ticks' = ticks + 1
             /\ event # "key_q"
             /\ frames' = frames
             /\ Len(CpuHistory') = Min(Len(CpuHistory) + 1, HISTORY_LIMIT)
             /\ Len(MemHistory') = Min(Len(MemHistory) + 1, HISTORY_LIMIT)
             /\ C16_Newest(CpuHistory') = << clock', Round2Cpu(sys'.cpu) >>
             /\ C16_Newest(MemHistory') = << clock', Round2Mem(MemoryUsage(sys')) >>
    /\ (ticks' = ticks) => (CpuHistory' = CpuHistory /\ MemHistory' = MemHistory)

\* C16 as stated: every iteration of the loop, whatever its poll delivered,
\* appended a sample, so when the loop has ended there are as many updates as
\* redraws.
C16_EveryTickSamples == Stopped => ticks = frames

\* C16: every iteration calls the redraw once; an iteration whose redraw,
\* poll and read succeed and deliver no event or an event other than the quit
\* command then queries the provider and appends exactly one sample to each
\* history; every other iteration appends nothing and is the last: the one
\* whose poll delivers the quit command, and one in which the redraw (no frame
\* is drawn then), the poll or the read returns an error.
C16_OneSamplePerTick == [](C16_Counts) /\ [][C16_Step]_vars

\* C16 witness: two iterations sampled, the third was redrawn and then quit.
C16_Witness ==
    /\ Stopped
    /\ quit
    /\ frames = 3
    /\ ticks = 2
    /\ Len(CpuHistory) = 2
    /\ Len(MemHistory) = 2

C17_Position ==
    /\ pc = "draw"   => (frames = ticks /\ polls = ticks)
    /\ pc = "poll"   => (frames = ticks + 1 /\ polls = ticks)
    /\ pc = "update" => (frames = ticks + 1 /\ polls = ticks + 1)

C17_Step ==
    /\ (frames' # frames)
          => /\ pc = "draw" /\ pc' = "poll"
             /\ app_state' = app_state
             /\ IF frames = 0
                THEN app_state = InitialAppState
                ELSE /\ app_state.elapsed_time = clock
                     /\ C16_Newest(CpuHistory)[1] = clock
                     /\ ~TargetReached(app_state)
    /\ (polls' # polls) => (pc = "poll" /\ pc' \in {"update", "disable_raw", "failed"})
    /\ (Running /\ ~Running')
          => \/ pc = "poll" /\ quit'
             \/ pc = "update" /\ TargetReached(app_state')
             \/ Aborted' /\ pc # "update"
    /\ (ticks' # ticks) => (pc = "update" /\ pc' \in {"draw", "disable_raw"})

\* C17 as stated: the redraw comes after the poll and the rebuild of its own
\* iteration, so once an iteration has redrawn there are as many rebuilds as
\* redraws.
C17_PollRefreshRedraw == (pc = "poll") => ticks = frames

\* C17: each iteration executes redraw, then input poll, then telemetry
\* refresh / AppState rebuild, in that fixed order, as far as it gets: it ends
\* after the poll that delivers the quit command and at a redraw, poll or read
\* that returns an error.  The first redraw renders the initial AppState and
\* every later redraw renders the AppState rebuilt at the end of the preceding
\* iteration, with no poll between the two.
C17_RedrawPollRefresh == [](C17_Position) /\ [][C17_Step]_vars

\* C17 witness: the second redraw has rendered the AppState rebuilt in the
\* first iteration, and the second poll has not happened yet.
C17_Witness ==
    /\ pc = "poll"
    /\ frames = 2
    /\ ticks = 1
    /\ polls = 1
    /\ app_state.elapsed_time = 1
    /\ Len(CpuHistory) = 1

C18_Renderable(a) ==
    /\ a.total_operations < TARGET_OPERATIONS
    /\ GaugePercent(a) \in 0..99
    /\ (a = InitialAppState \/ (ticks >= 1 /\ ~TargetReached(a)))

\* C18: every AppState handed to a redraw has total_operations below
\* TARGET_OPERATIONS (the initial state, or a snapshot on which the exit test
\* was false), so the gauge percentage is in 0..99; a snapshot at or above the
\* target is never rendered.
C18_RenderedBelowTarget ==
    /\ [](pc \in {"draw", "poll"} => C18_Renderable(app_state))
    /\ [][(frames' # frames) => C18_Renderable(app_state)]_vars

\* C18 witness: a redraw has rendered the last snapshot below the target while
\* the counter itself was already at the target.
C18_Witness ==
    /\ pc = "poll"
    /\ frames >= 2
    /\ app_state.total_operations = TARGET_OPERATIONS - BATCH
    /\ GaugePercent(app_state) = ((TargetBatches - 1) * 100) \div TargetBatches
    /\ counter >= TARGET_OPERATIONS

C19_Counter ==
    /\ counter % BATCH = 0
    /\ counter = BATCH * SumTo(batches, MaxCores)
    /\ counter <= TARGET_OPERATIONS + (num_cores - 1) * BATCH
    /\ \A w \in Workers : wpc[w] = "check" => wlast[w] >= BATCH * batches[w]

C19_Step ==
    \A w \in Workers :
        /\ (batches'[w] # batches[w])
              => /\ batches'[w] = batches[w] + 1
                 /\ counter' = counter + BATCH
                 /\ wpc[w] = "spin" /\ wpc'[w] = "check"
                 /\ wlast'[w] = counter'
        /\ (wpc[w] = "check" /\ wlast[w] >= TARGET_OPERATIONS /\ wpc'[w] # "check")
              => wpc'[w] = "exited"
        /\ (wpc[w] = "exited")
              => (wpc'[w] = "exited" /\ batches'[w] = batches[w])

\* C19: the counter is always BATCH times the number of batches all workers
\* have added; a worker whose add found the counter at or above
\* TARGET_OPERATIONS, or brought it there, exits at its next load and adds no
\* more, so each worker adds at most once after the target was first reached
\* and the counter never exceeds TARGET_OPERATIONS + (C - 1) * BATCH.
C19_BatchAccounting == [](C19_Counter) /\ [][C19_Step]_vars

\* C19 witness: the run has ended with the counter at its largest possible
\* value, every worker having added its batch before any of them loaded.
C19_Witness ==
    /\ Stopped
    /\ num_cores = MaxCores
    /\ joined = num_cores
    /\ counter = TARGET_OPERATIONS + (num_cores - 1) * BATCH
    /\ \A w \in Workers : batches[w] >= 1

\* C20: after every update the CPU and memory histories have the same length
\* and the same elapsed_seconds at every index, so whenever the eviction test
\* on the CPU history's length fires the memory history is as long and
\* non-empty, and both stay within HISTORY_LIMIT.
C20_HistoriesAligned ==
    /\ Len(CpuHistory) = Len(MemHistory)
    /\ \A i \in 1..Len(CpuHistory) : CpuHistory[i][1] = MemHistory[i][1]
    /\ Len(MemHistory) <= HISTORY_LIMIT
    /\ Len(CpuHistory) >= HISTORY_LIMIT => Len(MemHistory) >= 1

\* C20 witness: evictions have happened and both histories start at the same
\* retained sample.
C20_Witness ==
    /\ ticks = HISTORY_LIMIT + 1
    /\ pc = "draw"
    /\ Len(MemHistory) = HISTORY_LIMIT
    /\ MemHistory[1][1] = clock - HISTORY_LIMIT + 1
    /\ CpuHistory[1][1] = clock - HISTORY_LIMIT + 1
    /\ MemHistory[1][2] = Round2Mem(MemoryUsage(sys))

====
